---- MODULE Spec2Model ----
(***************************************************************************)
(* Request-lifecycle model of the three browser scripts of the site:       *)
(*   frontend/assets/js/chat-agent.js  (conversation controller)           *)
(*   frontend/script.js                (chat widget)                       *)
(*   the order-status lookup script    (lookup renderer)                   *)
(* A state is the DOM the scripts touch, the closures of the registered    *)
(* listeners and the network calls that have been issued.  One action is   *)
(* one turn of the event loop: an input event, a submit event (all the     *)
(* listeners registered on the form run, each to its first await) or the   *)
(* settling of one awaited promise (the continuation runs to its next      *)
(* await or to the end of the handler).                                    *)
(*                                                                         *)
(* Text is a sequence of characters; a fixed literal of the source is a    *)
(* one-element sequence holding the literal.                               *)
(***************************************************************************)
EXTENDS Integers, Sequences, FiniteSets, TLC

\* ---------------------------------------------------------------- bounds
MaxLen == 2          \* longest value typed into an input field
MaxSubmits == 2      \* accepted submits per page load

\* ------------------------------------------------------------ JS values
Chars == {" ", "&"}
Whitespace == {" "}

Undefined == [t |-> "undefined", v |-> <<>>]
Null == [t |-> "null", v |-> <<>>]
Str(s) == [t |-> "string", v |-> s]

\* JavaScript truthiness of undefined / null / string values.
Truthy(x) == x.t = "string" /\ x.v # <<>>

\* x || d
OrElse(x, d) == IF Truthy(x) THEN x ELSE d

\* Template-literal / String() conversion of undefined / null / string values.
TemplateString(x) ==
    CASE x.t = "undefined" -> <<"undefined">>
      [] x.t = "null" -> <<"null">>
      [] OTHER -> x.v

\* Assignment to HTMLElement.innerText ([LegacyNullToEmptyString] DOMString).
InnerTextOf(x) == IF x.t = "null" THEN <<>> ELSE TemplateString(x)

\* Assignment to Node.textContent (DOMString?: null and undefined are null).
TextContentOf(x) == IF x.t \in {"null", "undefined"} THEN <<>> ELSE x.v

\* Assignment to Element.innerHTML: the parser turns the tags of the string
\* into elements, and the text the element shows is what is left.
MarkupTokens == {"<b>", "</b>"}
InnerHTMLText(markup) == SelectSeq(markup, LAMBDA c : c \notin MarkupTokens)

\* All input values of length at most n.
RECURSIVE InputsUpTo(_)
InputsUpTo(n) ==
    IF n = 0 THEN {<<>>}
    ELSE LET shorter == InputsUpTo(n - 1)
         IN shorter \cup {Append(s, c) : s \in {x \in shorter : Len(x) = n - 1}, c \in Chars}

Inputs == InputsUpTo(MaxLen)

RECURSIVE TrimStart(_)
TrimStart(s) ==
    IF s # <<>> /\ Head(s) \in Whitespace THEN TrimStart(Tail(s)) ELSE s

RECURSIVE TrimEnd(_)
TrimEnd(s) ==
    IF s # <<>> /\ s[Len(s)] \in Whitespace
    THEN TrimEnd(SubSeq(s, 1, Len(s) - 1))
    ELSE s

\* A trim that removes nothing.
Trim_None(s) == s

\* String.prototype.trim
Trim(s) == TrimEnd(TrimStart(s))

Digit(d) == <<"0", "1", "2", "3", "4", "5", "6", "7", "8", "9">>[d + 1]

\* Decimal digits of a natural number.
RECURSIVE Digits(_)
Digits(n) == IF n < 10 THEN <<Digit(n)>> ELSE Append(Digits(n \div 10), Digit(n % 10))

\* A JSON number is held in eighths of a unit (binary fractions, which a
\* double holds exactly, so sums and roundings are the ones JavaScript makes).
Num(n) == [t |-> "number", n |-> n]
NoNum == [t |-> "undefined", n |-> 0]
NullNum == [t |-> "null", n |-> 0]

\* (x || 0) for an undefined / null / number value, as a number of eighths.
OrZero(x) == IF x.t = "number" THEN x.n ELSE 0

\* Number.prototype.toFixed(2): the nearest hundredth, the larger one on a
\* tie, the sign written first.
ToFixed2(n) ==
    LET mag == IF n < 0 THEN -n ELSE n
        cents == (25 * mag + 1) \div 2
    IN (IF n < 0 THEN <<"-">> ELSE <<>>)
       \o Digits(cents \div 100) \o <<".">>
       \o <<Digit((cents % 100) \div 10), Digit(cents % 10)>>

\* encodeURIComponent: unreserved characters stay, every other character
\* becomes the percent-escape of its UTF-8 byte.
RECURSIVE encodeURIComponent(_)
encodeURIComponent(s) ==
    IF s = <<>> THEN <<>>
    ELSE (CASE Head(s) = " " -> <<"%", "2", "0">>
            [] Head(s) = "&" -> <<"%", "2", "6">>
            [] OTHER -> <<Head(s)>>)
         \o encodeURIComponent(Tail(s))

\* ------------------------------------------------------------ the pages
\* A page is one script together with the element ids its document holds
\* (the lookup script is called order-status.js here).
AgentDom == {"chat-window", "chat-form", "chat-input"}
Pages ==
    { [script |-> "chat-agent.js", dom |-> AgentDom \cup {"chat-submit-button"}],
      [script |-> "chat-agent.js", dom |-> AgentDom],
      [script |-> "chat-agent.js", dom |-> {"chat-window", "chat-form"}],
      [script |-> "script.js", dom |-> {"chat-form", "message-input", "chat-window"}],
      [script |-> "order-status.js",
       dom |-> {"order-status-form", "customer-name", "results-container"}] }

\* ------------------------------------------------------------ responses
Statuses == {200, 404}
ResponseOk(status) == status >= 200 /\ status <= 299

\* What a rejected fetch() carries; the text differs from failure to failure.
FetchErrors == {<<"Failed to fetch">>, <<"The operation was aborted">>}

Replies == {<<"r1">>, <<"r2">>}
Details == {<<"Not found">>, <<"No order for ", "<b>", "Ann", "</b>">>}

\* The outcome of response.json(): rejection (malformed body), JSON null, or
\* an object with its reply and detail properties.
\* The order fields of a lookup payload; a chat body has none of them.
OrderRecord(name, dates, updated, prices, balance) ==
    [customerName |-> name,
     orderDate |-> dates[1], readyDate |-> dates[2],
     calledDate |-> dates[3], pickupDate |-> dates[4],
     lastUpdatedAt |-> updated,
     mountPrice |-> prices[1], boardPrice |-> prices[2],
     depositCash |-> prices[3], depositCheck |-> prices[4],
     paymentCash |-> prices[5], paymentCheck |-> prices[6],
     balance |-> balance]

NoOrder ==
    OrderRecord(Undefined, <<Undefined, Undefined, Undefined, Undefined>>, Undefined,
                <<NoNum, NoNum, NoNum, NoNum, NoNum, NoNum>>, NoNum)

Malformed == [json |-> "malformed", reply |-> Undefined, detail |-> Undefined,
              order |-> NoOrder]
JsonNull == [json |-> "null", reply |-> Undefined, detail |-> Undefined,
             order |-> NoOrder]
JsonObject(r, d) == [json |-> "object", reply |-> r, detail |-> d, order |-> NoOrder]
ChatBodies ==
    {Malformed, JsonNull}
    \cup {JsonObject(Str(r), Undefined) : r \in Replies}
    \cup {JsonObject(Undefined, Str(d)) : d \in Details}
    \cup {JsonObject(Undefined, Undefined), JsonObject(Null, Undefined)}

\* Lookup payloads: 12.5 is 100 eighths.
Balances == {NoNum, NullNum, Num(100), Num(0)}
IsoDate == <<"2024-01-05", "T", "10:30:00">>
SparseOrder(b) ==
    OrderRecord(Str(<<"Ann">>), <<Undefined, Undefined, Undefined, Undefined>>, Undefined,
                <<NoNum, NoNum, NoNum, NoNum, NoNum, NoNum>>, b)
FullOrder(b) ==
    OrderRecord(Str(<<"Ann">>), <<Str(IsoDate), Str(IsoDate), Null, Undefined>>,
                Str(IsoDate),
                <<Num(801), Num(4), Num(400), NullNum, Num(1), Num(0)>>, b)
\* Payloads with the balance and, of the optional fields, only the k-th
\* price and the k-th date (the fifth date is the last-updated timestamp).
OnlyField(k) ==
    LET dates == [j \in 1..5 |-> IF j = k THEN Str(<<"2024-01-05">>) ELSE Undefined]
    IN OrderRecord(Str(<<"Ann">>), SubSeq(dates, 1, 4), dates[5],
                   [j \in 1..6 |-> IF j = k THEN Num(12) ELSE NoNum], Num(100))
Orders ==
    {SparseOrder(b) : b \in Balances} \cup {FullOrder(Num(100))}
    \cup {OnlyField(k) : k \in 1..6}
\* The bodies a lookup response of the given status is read with: the order
\* fields are drawn for the statuses whose handler reads them.
LookupBodies(status) ==
    {Malformed, JsonNull, JsonObject(Undefined, Undefined)}
    \cup {JsonObject(Undefined, Str(d)) : d \in Details}
    \cup {[JsonObject(Undefined, Undefined) EXCEPT !.order = o] :
            o \in {x \in Orders : ResponseOk(status)}}

NoBody == [json |-> "none", reply |-> Undefined, detail |-> Undefined, order |-> NoOrder]
NoResponse == [kind |-> "none", status |-> 0, error |-> <<>>, body |-> NoBody]

HttpResponse(status, body) ==
    [kind |-> "http", status |-> status, error |-> <<>>, body |-> body]
TransportFailure(e) == [kind |-> "transport", status |-> 0, error |-> e, body |-> NoBody]

\* ---------------------------------------------------------------- state
VARIABLES
    page,               \* the script that was loaded and the ids in its document
    chatInput,          \* #chat-input: [value, disabled]
    chatSubmitButton,   \* #chat-submit-button: [disabled, innerText]
    messageInput,       \* #message-input: [value]
    nameInput,          \* #customer-name: [value]
    resultsContainer,   \* #results-container: [display, content]
    chatWindow,         \* #chat-window: its child elements, in document order
    conversationHistory,\* the conversationHistory of each of the two closures
    calls,              \* every fetch() issued, with the continuation awaiting it
    nextEl,             \* number of elements created so far
    lastEvent           \* what the last turn of the event loop did

vars == <<page, chatInput, chatSubmitButton, messageInput, nameInput,
          resultsContainer, chatWindow, conversationHistory, calls, nextEl,
          lastEvent>>

AGENT_PROXY_ENDPOINT ==
    <<"https://my-unique-business-api.azurewebsites.net/api/chat-with-agent">>
API_URL == <<"https://my-unique-business-api.azurewebsites.net/chat">>
API_BASE_URL == <<"https://my-unique-business-api.azurewebsites.net/api/order-status/">>
WidgetErrorText == <<"Sorry, I ran into an error. Please try again.">>
Searching == <<"Searching...">>
LookupErrorText == <<"Could not connect to the server. Please try again later.">>

NoReceipt ==
    [customerName |-> <<>>, orderDate |-> <<>>, readyDate |-> <<>>,
     calledDate |-> <<>>, pickupDate |-> <<>>, mountPrice |-> <<>>,
     boardPrice |-> <<>>, totalCost |-> <<>>, totalDeposit |-> <<>>,
     subsequentPayments |-> <<>>, balance |-> <<>>, lastUpdated |-> <<>>]

\* The content of #results-container: what kind of markup it holds, the text
\* of a one-paragraph content, the fields of a receipt, and the call whose
\* handler wrote it (0: none).
EmptyContent == [kind |-> "empty", text |-> <<>>, receipt |-> NoReceipt, by |-> 0]
Greeting == [role |-> "assistant", content |-> <<"Hello! How can I help you today?">>]
Ellipsis == <<"...">>
AgentErrorText == <<"Sorry, an error occurred. Please try again later.">>

\* chat-agent.js runs its body only when the three elements it checks exist.
AgentStarted == page.script = "chat-agent.js" /\ AgentDom \subseteq page.dom

Outstanding == {i \in 1..Len(calls) : calls[i].pc # "done"}

\* The part of the state a listener reads and writes, as one record.
Snapshot ==
    [chatInput |-> chatInput, chatSubmitButton |-> chatSubmitButton,
     messageInput |-> messageInput, nameInput |-> nameInput,
     resultsContainer |-> resultsContainer, chatWindow |-> chatWindow, conversationHistory |-> conversationHistory,
     calls |-> calls, nextEl |-> nextEl, threw |-> FALSE]

\* The value of the input field of the loaded script.
InputValue ==
    CASE page.script = "chat-agent.js" -> chatInput.value
      [] page.script = "script.js" -> messageInput.value
      [] OTHER -> nameInput.value

\* A record of one turn of the event loop: its kind, the call it settled
\* (0: none), the field value a submit event found, the number of outstanding calls,
\* the calls it issued, the growth of the chat window, whether a listener
\* ended in an uncaught exception, and the response it consumed.
Event(type, call, response, st) ==
    [type |-> type,
     call |-> call,
     value |-> IF type = "submit" THEN InputValue ELSE <<>>,
     before |-> Cardinality(Outstanding),
     issued |-> Len(st.calls) - Len(calls),
     appended |-> Len(st.chatWindow) - Len(chatWindow),
     threw |-> st.threw,
     response |-> response]

Commit(type, call, response, st) ==
    /\ chatInput' = st.chatInput
    /\ chatSubmitButton' = st.chatSubmitButton
    /\ messageInput' = st.messageInput
    /\ nameInput' = st.nameInput
    /\ resultsContainer' = st.resultsContainer
    /\ chatWindow' = st.chatWindow
    /\ conversationHistory' = st.conversationHistory
    /\ calls' = st.calls
    /\ nextEl' = st.nextEl
    /\ lastEvent' = Event(type, call, response, st)
    /\ UNCHANGED page

\* The handler of call i has run to its end: its locals are gone.
Finished(st, i) == [st EXCEPT !.calls[i].pc = "done", !.calls[i].status = 0]

\* ------------------------------------------------- chat-agent.js helpers
addMessageToWindow(st, sender, message) ==
    [st EXCEPT !.chatWindow = Append(@, [id |-> st.nextEl + 1, sender |-> sender,
                                         text |-> message, html |-> FALSE]),
               !.nextEl = @ + 1]

\* setFormDisabled that leaves chatInput.disabled alone.
setFormDisabled_ButtonOnly(st, isDisabled) ==
    IF "chat-submit-button" \in page.dom
    THEN [st EXCEPT !.chatSubmitButton =
              [disabled |-> isDisabled,
               innerText |-> IF isDisabled THEN <<"Thinking...">> ELSE <<"Send">>]]
    ELSE [st EXCEPT !.threw = TRUE]

\* chatInput.disabled is assigned first; the assignment to
\* chatSubmitButton.disabled throws a TypeError when the button is null.
setFormDisabled(st, isDisabled) ==
    LET s1 == [st EXCEPT !.chatInput.disabled = isDisabled]
    IN IF "chat-submit-button" \in page.dom
       THEN [s1 EXCEPT !.chatSubmitButton =
                 [disabled |-> isDisabled,
                  innerText |-> IF isDisabled THEN <<"Thinking...">> ELSE <<"Send">>]]
       ELSE [s1 EXCEPT !.threw = TRUE]

\* element.innerText = text / element.innerHTML = markup, on the element id el
SetInnerText(children, el, text) ==
    [i \in 1..Len(children) |->
        IF children[i].id = el
        THEN [children[i] EXCEPT !.text = text, !.html = FALSE]
        ELSE children[i]]

SetInnerHTML(children, el, text) ==
    [i \in 1..Len(children) |->
        IF children[i].id = el
        THEN [children[i] EXCEPT !.text = InnerHTMLText(text), !.html = TRUE]
        ELSE children[i]]

\* The submit listener of closure k, from the event to its first await.
AgentListener(st, k) ==
    LET userMessage == Trim(st.chatInput.value) IN
    IF userMessage = <<>> THEN st
    ELSE
      LET s1 == addMessageToWindow(st, "user", userMessage)
          s2 == [s1 EXCEPT !.conversationHistory[k] =
                     Append(@, [role |-> "user", content |-> userMessage])]
          s3 == [s2 EXCEPT !.chatInput.value = <<>>]
          s4 == setFormDisabled(s3, TRUE)
      IN IF s4.threw THEN s4
         ELSE LET s5 == addMessageToWindow(s4, "assistant", Ellipsis)
              IN [s5 EXCEPT !.calls =
                      Append(@, [endpoint |-> AGENT_PROXY_ENDPOINT,
                                 method |-> "POST",
                                 message |-> userMessage,
                                 listener |-> k,
                                 el |-> s5.nextEl,
                                 pc |-> "fetch",
                                 status |-> 0])]

\* new Error(`API Error: ${response.status} - ${errorData.detail || 'Unknown error'}`)
ApiError(status, errorData) ==
    <<"API Error: ">> \o Digits(status) \o <<" - ">> \o OrElse(errorData.detail, Str(<<"Unknown error">>)).v

TypeError == <<"TypeError">>
SyntaxError == <<"SyntaxError">>

\* A catch block without the finally block after it.
AgentCatch_NoFinally(st, i, error) ==
    [st EXCEPT !.chatWindow = SetInnerHTML(@, st.calls[i].el, AgentErrorText)]

\* A catch block that shows the message of the error it caught.
AgentCatch_ShowError(st, i, error) ==
    setFormDisabled(
        [st EXCEPT !.chatWindow = SetInnerHTML(@, st.calls[i].el, error)],
        FALSE)

\* A catch block that also records the error message in the history.
AgentCatch_PushError(st, i, error) ==
    setFormDisabled(
        [st EXCEPT !.chatWindow = SetInnerHTML(@, st.calls[i].el, AgentErrorText),
                   !.conversationHistory[st.calls[i].listener] =
                       Append(@, [role |-> "assistant", content |-> AgentErrorText])],
        FALSE)

\* catch (error) { console.error(..., error); innerHTML = fixed markup }
\* finally { setFormDisabled(false) }
AgentCatch(st, i, error) ==
    setFormDisabled(
        [st EXCEPT !.chatWindow = SetInnerHTML(@, st.calls[i].el, AgentErrorText)],
        FALSE)

\* The reply added as a new entry instead of written into the placeholder.
AgentShowReply_Append(st, i, data) ==
    setFormDisabled(addMessageToWindow(st, "assistant", InnerTextOf(data.reply)), FALSE)

\* assistantMessageElement.innerText = data.reply, then the finally block
AgentShowReply(st, i, data) ==
    setFormDisabled(
        [st EXCEPT !.chatWindow = SetInnerText(@, st.calls[i].el, InnerTextOf(data.reply))],
        FALSE)

\* The continuation after `await response.json()` of call i, body settled.
AgentAfterJson(st, i, body) ==
    LET ok == ResponseOk(st.calls[i].status) IN
    IF body.json = "malformed" THEN AgentCatch(st, i, SyntaxError)
    ELSE IF body.json = "null" THEN AgentCatch(st, i, TypeError)
    ELSE IF ~ok THEN AgentCatch(st, i, ApiError(st.calls[i].status, body))
    ELSE AgentShowReply(st, i, body)

\* ------------------------------------------------------ script.js helpers
WidgetStarted == page.script = "script.js"

\* addMessage: a new element whose textContent is text, appended to the window
addMessage(st, sender, text) ==
    [st EXCEPT !.chatWindow = Append(@, [id |-> st.nextEl + 1, sender |-> sender,
                                         text |-> TextContentOf(text), html |-> FALSE]),
               !.nextEl = @ + 1]

\* A removal that takes the last entry of the window, whichever it is.
RemoveElement_Last(children, el) == SubSeq(children, 1, Len(children) - 1)

\* element.remove(): no effect when the element is no longer in the window
RemoveElement(children, el) == SelectSeq(children, LAMBDA c : c.id # el)

\* new Error(`HTTP error! status: ${response.status}`)
HttpError(status) == <<"HTTP error! status: ">> \o Digits(status)

\* The submit listener, from the event to its first await.
WidgetListener(st) ==
    LET userMessage == Trim(st.messageInput.value) IN
    IF userMessage = <<>> THEN st
    ELSE
      LET s1 == addMessage(st, "user", Str(userMessage))
          s2 == [s1 EXCEPT !.messageInput.value = <<>>]
          s3 == addMessage(s2, "loading", Str(Ellipsis))
      IN [s3 EXCEPT !.calls =
              Append(@, [endpoint |-> API_URL,
                         method |-> "POST",
                         message |-> userMessage,
                         listener |-> 1,
                         el |-> s3.nextEl,
                         pc |-> "fetch",
                         status |-> 0])]

\* catch (error) { console.error(...); loadingMessage.remove(); addMessage('ai', fixed) }
WidgetCatch(st, i, error) ==
    addMessage([st EXCEPT !.chatWindow = RemoveElement(@, st.calls[i].el)],
               "ai", Str(WidgetErrorText))

\* The reply added without removing the loading entry.
WidgetShowReply_KeepLoading(st, i, data) == addMessage(st, "ai", data.reply)

\* loadingMessage.remove(); addMessage('ai', data.reply)
WidgetShowReply(st, i, data) ==
    addMessage([st EXCEPT !.chatWindow = RemoveElement(@, st.calls[i].el)],
               "ai", data.reply)

\* The continuation after `await response.json()` of call i.
WidgetAfterJson(st, i, body) ==
    IF body.json = "malformed" THEN WidgetCatch(st, i, SyntaxError)
    ELSE IF body.json = "null" THEN WidgetCatch(st, i, TypeError)
    ELSE WidgetShowReply(st, i, body)

\* ------------------------------------------------- order-status helpers
LookupStarted ==
    /\ page.script = "order-status.js"
    /\ {"order-status-form", "customer-name", "results-container"} \subseteq page.dom

\* dateString.split('T')[0]
RECURSIVE SplitT(_)
SplitT(s) ==
    IF s = <<>> \/ Head(s) = "T" THEN <<>> ELSE <<Head(s)>> \o SplitT(Tail(s))

formatDateTime(dateTimeString) ==
    IF ~Truthy(dateTimeString) THEN <<"N/A">>
    ELSE <<"toLocaleString:">> \o dateTimeString.v

\* formatDate with the label of formatDateTime.
formatDate_NA(dateString) ==
    IF ~Truthy(dateString) THEN <<"N/A">>
    ELSE <<"toLocaleDateString:">> \o SplitT(dateString.v)

formatDate(dateString) ==
    IF ~Truthy(dateString) THEN <<"Pending">>
    ELSE <<"toLocaleDateString:">> \o SplitT(dateString.v)

\* A total that leaves the second price out.
totalCost_MountOnly(data) == OrZero(data.mountPrice)

totalCost(data) == OrZero(data.mountPrice) + OrZero(data.boardPrice)
totalDeposit(data) == OrZero(data.depositCash) + OrZero(data.depositCheck)
subsequentPayments(data) == OrZero(data.paymentCash) + OrZero(data.paymentCheck)

\* (data.balance || 0).toFixed(2), which never throws.
BalanceThrows_Defaulted(data) == FALSE

\* data.balance.toFixed(2): a TypeError when balance is undefined or null
BalanceThrows(data) == data.balance.t # "number"
BalanceText(data) == ToFixed2(data.balance.n)

\* The receipt template evaluated on the payload.
Receipt(data) ==
    [customerName |-> InnerHTMLText(TemplateString(data.customerName)),
     orderDate |-> formatDate(data.orderDate),
     readyDate |-> formatDate(data.readyDate),
     calledDate |-> formatDate(data.calledDate),
     pickupDate |-> formatDate(data.pickupDate),
     mountPrice |-> ToFixed2(OrZero(data.mountPrice)),
     boardPrice |-> ToFixed2(OrZero(data.boardPrice)),
     totalCost |-> ToFixed2(totalCost(data)),
     totalDeposit |-> ToFixed2(totalDeposit(data)),
     subsequentPayments |-> ToFixed2(subsequentPayments(data)),
     balance |-> BalanceText(data),
     lastUpdated |-> formatDateTime(data.lastUpdatedAt)]

\* innerHTML = `<p ...>${text}</p>`
Paragraph(kind, text, i) ==
    [kind |-> kind, text |-> InnerHTMLText(text), receipt |-> NoReceipt, by |-> i]

\* The address built from the name as typed, without escaping.
apiUrl_Raw(customerName) == API_BASE_URL \o customerName

\* const apiUrl = `${API_BASE_URL}${encodeURIComponent(customerName)}`
apiUrl(customerName) == API_BASE_URL \o encodeURIComponent(customerName)

\* The submit listener, from the event to its first await.
LookupListener(st) ==
    LET customerName == Trim(st.nameInput.value) IN
    IF customerName = <<>> THEN st
    ELSE [st EXCEPT
            !.resultsContainer = [display |-> "block",
                                  content |-> Paragraph("searching", Searching,
                                                        Len(st.calls) + 1)],
            !.calls = Append(@, [endpoint |-> apiUrl(customerName),
                                 method |-> "GET",
                                 message |-> <<>>,
                                 listener |-> 1,
                                 el |-> 0,
                                 pc |-> "fetch",
                                 status |-> 0])]

\* A catch block that logs the error and leaves the container alone.
LookupCatch_LogOnly(st, i, error) == st

\* A catch block that shows the message of the error it caught.
LookupCatch_ShowError(st, i, error) ==
    [st EXCEPT !.resultsContainer.content = Paragraph("error", error, i)]

\* catch (error) { console.error(...); innerHTML = generic message }
LookupCatch(st, i, error) ==
    [st EXCEPT !.resultsContainer.content = Paragraph("error", LookupErrorText, i)]

\* A continuation that leaves a receipt that is on display in place.
LookupAfterJson_KeepReceipt(st, i, data) ==
    IF st.resultsContainer.content.kind = "receipt" THEN st
    ELSE IF data.json = "malformed" THEN LookupCatch(st, i, SyntaxError)
    ELSE IF data.json = "null" THEN LookupCatch(st, i, TypeError)
    ELSE IF ~ResponseOk(st.calls[i].status)
    THEN [st EXCEPT !.resultsContainer.content =
              Paragraph("error", TemplateString(data.detail), i)]
    ELSE IF BalanceThrows(data.order) THEN LookupCatch(st, i, TypeError)
    ELSE [st EXCEPT !.resultsContainer.content =
              [kind |-> "receipt", text |-> <<>>, receipt |-> Receipt(data.order),
               by |-> i]]

\* The continuation after `await response.json()` of call i.
LookupAfterJson(st, i, data) ==
    IF data.json = "malformed" THEN LookupCatch(st, i, SyntaxError)
    ELSE IF data.json = "null" THEN LookupCatch(st, i, TypeError)
    ELSE IF ~ResponseOk(st.calls[i].status)
    THEN [st EXCEPT !.resultsContainer.content =
              Paragraph("error", TemplateString(data.detail), i)]
    ELSE IF BalanceThrows(data.order) THEN LookupCatch(st, i, TypeError)
    ELSE [st EXCEPT !.resultsContainer.content =
              [kind |-> "receipt", text |-> <<>>, receipt |-> Receipt(data.order),
               by |-> i]]

\* One edit of an input field: a character typed at the end, or the last
\* character deleted.
Edits(value) ==
    {Append(value, c) : c \in {x \in Chars : Len(value) < MaxLen}}
    \cup {SubSeq(value, 1, Len(value) - 1) : x \in {y \in {0} : value # <<>>}}

\* ------------------------------------------------------------------ Init
Init ==
    /\ page \in Pages
    /\ chatInput = [value |-> <<>>, disabled |-> FALSE]
    /\ chatSubmitButton = [disabled |-> FALSE, innerText |-> <<"Send">>]
    /\ messageInput = [value |-> <<>>]
    /\ nameInput = [value |-> <<>>]
    /\ resultsContainer = [display |-> "initial", content |-> EmptyContent]
    /\ chatWindow = <<>>
    /\ conversationHistory = [k \in 1..2 |-> <<Greeting>>]
    /\ calls = <<>>
    /\ nextEl = 0
    /\ lastEvent = [type |-> "load", call |-> 0, value |-> <<>>, before |-> 0, issued |-> 0, appended |-> 0,
                    threw |-> FALSE, response |-> NoResponse]

\* --------------------------------------------------- chat-agent.js actions
\* The user edits #chat-input; a disabled input cannot be edited.
AgentInput ==
    /\ AgentStarted
    /\ ~chatInput.disabled
    /\ \E v \in Edits(chatInput.value) :
         Commit("input", 0, NoResponse, [Snapshot EXCEPT !.chatInput.value = v])

\* A submit event on #chat-form: both registered listeners run in
\* registration order, each to its first await.
AgentSubmit ==
    /\ AgentStarted
    /\ Trim(chatInput.value) # <<>> => Len(conversationHistory[1]) <= MaxSubmits
    /\ LET s1 == AgentListener(Snapshot, 1)
           s2 == AgentListener([s1 EXCEPT !.threw = FALSE], 2)
       IN Commit("submit", 0, NoResponse, [s2 EXCEPT !.threw = s1.threw \/ s2.threw])

\* fetch() of call i settles: a response with a status, or a rejection.
AgentFetchSettles ==
    /\ AgentStarted
    /\ \E i \in Outstanding :
         /\ calls[i].pc = "fetch"
         /\ \/ \E status \in Statuses :
                 Commit("fetch", i, HttpResponse(status, NoBody),
                        [Snapshot EXCEPT !.calls[i].pc = "json",
                                         !.calls[i].status = status])
            \/ \E e \in FetchErrors :
                 Commit("fetch", i, TransportFailure(e),
                        AgentCatch([Snapshot EXCEPT !.calls[i].pc = "done"], i, e))

\* response.json() of call i settles with a body, or rejects.
AgentBodySettles ==
    /\ AgentStarted
    /\ \E i \in Outstanding :
         /\ calls[i].pc = "json"
         /\ \E body \in ChatBodies :
              Commit("json", i, HttpResponse(calls[i].status, body),
                     Finished(AgentAfterJson(Snapshot, i, body), i))

NextAgent == AgentInput \/ AgentSubmit \/ AgentFetchSettles \/ AgentBodySettles

\* ------------------------------------------------------ script.js actions
WidgetInput ==
    /\ WidgetStarted
    /\ \E v \in Edits(messageInput.value) :
         Commit("input", 0, NoResponse, [Snapshot EXCEPT !.messageInput.value = v])

WidgetSubmit ==
    /\ WidgetStarted
    /\ Trim(messageInput.value) # <<>> => Len(calls) < MaxSubmits
    /\ Commit("submit", 0, NoResponse, WidgetListener(Snapshot))

\* fetch() of call i settles; a response that is not ok throws at once.
WidgetFetchSettles ==
    /\ WidgetStarted
    /\ \E i \in Outstanding :
         /\ calls[i].pc = "fetch"
         /\ \/ \E status \in Statuses :
                 IF ResponseOk(status)
                 THEN Commit("fetch", i, HttpResponse(status, NoBody),
                             [Snapshot EXCEPT !.calls[i].pc = "json",
                                              !.calls[i].status = status])
                 ELSE Commit("fetch", i, HttpResponse(status, NoBody),
                             WidgetCatch([Snapshot EXCEPT !.calls[i].pc = "done"], i,
                                         HttpError(status)))
            \/ \E e \in FetchErrors :
                 Commit("fetch", i, TransportFailure(e),
                        WidgetCatch([Snapshot EXCEPT !.calls[i].pc = "done"], i, e))

WidgetBodySettles ==
    /\ WidgetStarted
    /\ \E i \in Outstanding :
         /\ calls[i].pc = "json"
         /\ \E body \in ChatBodies :
              Commit("json", i, HttpResponse(calls[i].status, body),
                     Finished(WidgetAfterJson(Snapshot, i, body), i))

NextWidget == WidgetInput \/ WidgetSubmit \/ WidgetFetchSettles \/ WidgetBodySettles

\* --------------------------------------------------- order-status actions
LookupInput ==
    /\ LookupStarted
    /\ \E v \in Edits(nameInput.value) :
         Commit("input", 0, NoResponse, [Snapshot EXCEPT !.nameInput.value = v])

LookupSubmit ==
    /\ LookupStarted
    /\ Trim(nameInput.value) # <<>> => Len(calls) < MaxSubmits
    /\ Commit("submit", 0, NoResponse, LookupListener(Snapshot))

LookupFetchSettles ==
    /\ LookupStarted
    /\ \E i \in Outstanding :
         /\ calls[i].pc = "fetch"
         /\ \/ \E status \in Statuses :
                 Commit("fetch", i, HttpResponse(status, NoBody),
                        [Snapshot EXCEPT !.calls[i].pc = "json",
                                         !.calls[i].status = status])
            \/ \E e \in FetchErrors :
                 Commit("fetch", i, TransportFailure(e),
                        LookupCatch([Snapshot EXCEPT !.calls[i].pc = "done"], i, e))

LookupBodySettles ==
    /\ LookupStarted
    /\ \E i \in Outstanding :
         /\ calls[i].pc = "json"
         /\ \E body \in LookupBodies(calls[i].status) :
              Commit("json", i, HttpResponse(calls[i].status, body),
                     Finished(LookupAfterJson(Snapshot, i, body), i))

NextLookup == LookupInput \/ LookupSubmit \/ LookupFetchSettles \/ LookupBodySettles

Next == NextAgent \/ NextWidget \/ NextLookup

Spec == Init /\ [][Next]_vars

\* The awaited promises settle: the network answers or fails, and a body
\* that is being read is read to its end or fails to parse.
LiveSpec ==
    /\ Init
    /\ [][Next]_vars
    /\ WF_vars(AgentFetchSettles)
    /\ WF_vars(AgentBodySettles)

TypeOK ==
    /\ page \in Pages
    /\ chatInput.value \in Inputs
    /\ chatInput.disabled \in BOOLEAN
    /\ messageInput.value \in Inputs
    /\ nameInput.value \in Inputs
    /\ nextEl \in 0..(3 * MaxSubmits)
    /\ Len(calls) <= MaxSubmits

\* ----------------------------------------------------------- properties
\* The text of the element with id el, when it is in the chat window.
ElementAt(el) == {p \in 1..Len(chatWindow) : chatWindow[p].id = el}
ElementText(el) == chatWindow[CHOOSE p \in ElementAt(el) : TRUE].text

\* The last turn settled call i for good (its handler ran to the end).
Settled == lastEvent.type \in {"fetch", "json"} /\ calls[lastEvent.call].pc = "done"

\* The last turn read a body that parsed to an object.
GotObject == lastEvent.type = "json" /\ lastEvent.response.body.json = "object"

\* C1: in chat-agent.js at most one request is outstanding at any time, and
\* a submit event that arrives while a request is outstanding issues no
\* request and appends nothing to the window.
C1_AtMostOneOutstanding ==
    AgentStarted =>
        /\ Cardinality(Outstanding) <= 1
        /\ (lastEvent.type = "submit" /\ lastEvent.before > 0)
              => (lastEvent.issued = 0 /\ lastEvent.appended = 0)

C1_SubmitWhileOutstanding ==
    /\ AgentStarted
    /\ lastEvent.type = "submit"
    /\ lastEvent.before = 1
    /\ Cardinality(Outstanding) = 1

\* C2: a submit event on the chat-agent.js form with a non-empty trimmed
\* input and no request outstanding issues exactly one POST over both
\* listeners and adds one user entry and one placeholder entry; a submit
\* event with an empty or whitespace-only input issues no POST.
C2_ExactlyOnePost ==
    (AgentStarted /\ lastEvent.type = "submit") =>
        /\ (Trim(lastEvent.value) # <<>> /\ lastEvent.before = 0)
              => (lastEvent.issued = 1 /\ lastEvent.appended = 2)
        /\ Trim(lastEvent.value) = <<>> => lastEvent.issued = 0

C4_DetailShownVerbatim ==
    (AgentStarted /\ GotObject /\ ~ResponseOk(lastEvent.response.status)) =>
        LET detail == lastEvent.response.body.detail
            shown == ElementText(calls[lastEvent.call].el)
        IN IF Truthy(detail) THEN shown = detail.v ELSE shown = AgentErrorText

\* The fixed message of the loaded chat script, and the text the handler of
\* call i left for the user.
FixedErrorText == IF page.script = "chat-agent.js" THEN AgentErrorText ELSE WidgetErrorText
Shown(i) ==
    IF page.script = "chat-agent.js"
    THEN ElementText(calls[i].el)
    ELSE chatWindow[Len(chatWindow)].text

TransportFailed == lastEvent.type = "fetch" /\ lastEvent.response.kind = "transport"
BodyMalformed == lastEvent.type = "json" /\ lastEvent.response.body.json = "malformed"

\* C5: after a transport failure or a malformed body, the chat scripts show
\* the fixed message of the script, whatever the exception text, the status
\* code or the body were.
C5_FixedFailureText ==
    ((AgentStarted \/ WidgetStarted) /\ (TransportFailed \/ BodyMalformed))
        => Shown(lastEvent.call) = FixedErrorText

C5_FailureShown ==
    /\ AgentStarted
    /\ TransportFailed
    /\ lastEvent.response.error = <<"The operation was aborted">>
    /\ Shown(lastEvent.call) = AgentErrorText

\* The last turn read a 2xx body {reply: r} with r a string.
GotReply ==
    /\ GotObject
    /\ ResponseOk(lastEvent.response.status)
    /\ lastEvent.response.body.reply.t = "string"

\* C6 as stated: on a 2xx {reply: r} the last entry of the window has text
\* r, the number of entries is unchanged, and the entry holding r is the
\* placeholder entry inserted at submit.
C6_PlaceholderHoldsReply ==
    ((AgentStarted \/ WidgetStarted) /\ GotReply) =>
        LET last == chatWindow[Len(chatWindow)] IN
        /\ last.text = lastEvent.response.body.reply.v
        /\ lastEvent.appended = 0
        /\ last.id = calls[lastEvent.call].el

\* C6 amended: on a 2xx {reply: r} the last entry of the window has text r
\* and the number of entries is unchanged; in chat-agent.js that entry is
\* the placeholder inserted at submit, in script.js the placeholder is gone
\* from the window and r is held by a new entry.
C6_ReplyReplacesPlaceholder ==
    ((AgentStarted \/ WidgetStarted) /\ GotReply) =>
        LET last == chatWindow[Len(chatWindow)] IN
        /\ last.text = lastEvent.response.body.reply.v
        /\ lastEvent.appended = 0
        /\ AgentStarted => last.id = calls[lastEvent.call].el
        /\ WidgetStarted => (ElementAt(calls[lastEvent.call].el) = {} /\ last.id = nextEl)

C6_WidgetReplyShown ==
    /\ WidgetStarted
    /\ GotReply
    /\ Len(chatWindow) = 2
    /\ chatWindow[2].sender = "ai"
    /\ chatWindow[2].text = <<"r1">>

\* The chat-agent.js window holds, for call i, the user entry with the
\* message of the call directly followed by the assistant entry of the call.
RoundTripEntries(i) ==
    /\ Len(chatWindow) >= 2 * i
    /\ chatWindow[2 * i - 1] = [id |-> 2 * i - 1, sender |-> "user",
                                text |-> calls[i].message, html |-> FALSE]
    /\ chatWindow[2 * i].id = calls[i].el
    /\ chatWindow[2 * i].sender = "assistant"
    /\ calls[i].pc # "done" => chatWindow[2 * i].text = Ellipsis

\* A step that settles a call leaves every entry but the entry of that call
\* as it was, and leaves in that entry the reply of the call or the fixed
\* error message.
OwnEntryOnly ==
    (AgentStarted /\ Settled') =>
        LET i == lastEvent'.call IN
        /\ Len(chatWindow') = Len(chatWindow)
        /\ \A p \in 1..Len(chatWindow) : p # 2 * i => chatWindow'[p] = chatWindow[p]
        /\ IF GotReply' THEN chatWindow'[2 * i].text = lastEvent'.response.body.reply.v
           ELSE chatWindow'[2 * i].text \in {AgentErrorText, <<"undefined">>, <<>>}

\* C7: in chat-agent.js the window lists the round trips in the order of
\* their submits, each user entry directly followed by the entry of its own
\* request, which holds the reply or error of that request and is not
\* touched by another round trip; nothing else is in the window.
C7_LogAlternates ==
    /\ [](AgentStarted =>
            /\ \A i \in 1..Len(calls) : RoundTripEntries(i)
            /\ Len(chatWindow) = nextEl
            /\ \A p \in 1..Len(chatWindow) : chatWindow[p].id = p)
    /\ [][OwnEntryOnly]_vars

C7_TwoRoundTrips ==
    /\ AgentStarted
    /\ Len(calls) = 2
    /\ Outstanding = {}
    /\ <<chatWindow[1].text, chatWindow[2].text, chatWindow[3].text, chatWindow[4].text>>
          = << <<"&">>, <<"r1">>, <<"&", "&">>, <<"r2">> >>

\* C8: after a successful round trip the conversationHistory of the closure
\* that made the request ends with the user message followed by an
\* assistant message whose content is the reply.
C8_HistoryHoldsReply ==
    (AgentStarted /\ GotReply) =>
        LET h == conversationHistory[calls[lastEvent.call].listener]
            n == Len(h)
        IN /\ n >= 3
           /\ h[n - 1] = [role |-> "user", content |-> calls[lastEvent.call].message]
           /\ h[n] = [role |-> "assistant", content |-> lastEvent.response.body.reply.v]

\* The last turn read a 2xx lookup payload without a balance.
BalanceMissing ==
    /\ LookupStarted
    /\ GotObject
    /\ ResponseOk(lastEvent.response.status)
    /\ lastEvent.response.body.order.balance.t \in {"undefined", "null"}

\* A step that puts a receipt into the results container settles a call with
\* a payload whose balance is a number, and the receipt shows that number
\* to two decimals.
ReceiptOnlyWithBalance ==
    (resultsContainer'.content.kind = "receipt" /\ resultsContainer' # resultsContainer) =>
        LET balance == lastEvent'.response.body.order.balance IN
        /\ lastEvent'.type = "json"
        /\ balance.t = "number"
        /\ resultsContainer'.content.receipt.balance = ToFixed2(balance.n)

\* C9: a 2xx lookup payload whose balance is absent or null ends in an
\* error rendering written by the handler of that call, and a receipt gets
\* into the results container only from a payload that has a balance.
C9_NoReceiptWithoutBalance ==
    /\ [](BalanceMissing =>
            /\ resultsContainer.content.kind = "error"
            /\ resultsContainer.content.by = lastEvent.call)
    /\ [][ReceiptOnlyWithBalance]_vars

C9_MissingBalanceSeen ==
    /\ BalanceMissing
    /\ lastEvent.response.body.order.balance.t = "undefined"
    /\ resultsContainer.content.kind = "error"

\* C10: for a 2xx lookup payload without a balance the renderer shows
\* something else than the generic could-not-connect message it shows for a
\* transport failure.
C10_MissingBalanceDistinct ==
    BalanceMissing => resultsContainer.content.text # LookupErrorText

\* The last turn read a 2xx lookup payload whose balance is a number.
GotOrder ==
    /\ LookupStarted
    /\ GotObject
    /\ ResponseOk(lastEvent.response.status)
    /\ lastEvent.response.body.order.balance.t = "number"

\* What a currency field counts for: its number, 0 when absent or null.
Counted(x) == IF x.t = "number" THEN x.n ELSE 0

AllPricesAbsent(order) ==
    \A f \in {"mountPrice", "boardPrice", "depositCash", "depositCheck",
              "paymentCash", "paymentCheck"} : order[f].t = "undefined"

\* C11: for a 2xx lookup payload the receipt shows the three totals as the
\* sums of their two fields with an absent or null field counted as 0,
\* field by field, and the balance of the payload to two decimals; with all
\* six fields absent and balance 12.5 the totals read 0.00 and the balance
\* reads 12.50.
C11_AbsentCountsAsZero ==
    GotOrder =>
        LET order == lastEvent.response.body.order
            shown == resultsContainer.content.receipt
        IN /\ resultsContainer.content.kind = "receipt"
           /\ shown.totalCost = ToFixed2(Counted(order.mountPrice) + Counted(order.boardPrice))
           /\ shown.totalDeposit
                 = ToFixed2(Counted(order.depositCash) + Counted(order.depositCheck))
           /\ shown.subsequentPayments
                 = ToFixed2(Counted(order.paymentCash) + Counted(order.paymentCheck))
           /\ shown.balance = ToFixed2(order.balance.n)
           /\ (AllPricesAbsent(order) /\ order.balance.n = 100) =>
                 /\ shown.totalCost = <<"0", ".", "0", "0">>
                 /\ shown.totalDeposit = <<"0", ".", "0", "0">>
                 /\ shown.subsequentPayments = <<"0", ".", "0", "0">>
                 /\ shown.balance = <<"1", "2", ".", "5", "0">>

C11_AllAbsentRendered ==
    /\ GotOrder
    /\ AllPricesAbsent(lastEvent.response.body.order)
    /\ lastEvent.response.body.order.balance.n = 100
    /\ resultsContainer.content.receipt.totalCost = <<"0", ".", "0", "0">>
    /\ resultsContainer.content.receipt.balance = <<"1", "2", ".", "5", "0">>

Absent(x) == x.t \in {"undefined", "null"}
WorkflowDates == {"orderDate", "readyDate", "calledDate", "pickupDate"}

\* C12: in the receipt of a 2xx lookup payload each of the four workflow
\* dates reads "Pending" exactly when the payload lacks that field, the
\* last-updated line reads "N/A" exactly when the payload lacks the
\* timestamp, and the container holds a receipt whichever of them are absent.
C12_PendingWhenAbsent ==
    GotOrder =>
        LET order == lastEvent.response.body.order
            shown == resultsContainer.content.receipt
        IN /\ resultsContainer.content.kind = "receipt"
           /\ \A f \in WorkflowDates : (shown[f] = <<"Pending">>) <=> Absent(order[f])
           /\ (shown.lastUpdated = <<"N/A">>) <=> Absent(order.lastUpdatedAt)

C12_OneDatePresent ==
    /\ GotOrder
    /\ ~Absent(lastEvent.response.body.order.readyDate)
    /\ \A f \in WorkflowDates \ {"readyDate"} :
          /\ Absent(lastEvent.response.body.order[f])
          /\ resultsContainer.content.receipt[f] = <<"Pending">>
    /\ resultsContainer.content.receipt.readyDate = <<"toLocaleDateString:", "2024-01-05">>
    /\ resultsContainer.content.receipt.lastUpdated = <<"N/A">>

\* The last turn read a non-2xx lookup body {detail: d} with d a string.
GotDetail ==
    /\ LookupStarted
    /\ GotObject
    /\ ~ResponseOk(lastEvent.response.status)
    /\ lastEvent.response.body.detail.t = "string"

\* C13: after a non-2xx lookup answer with a body {detail: d} the results
\* container holds an error paragraph whose text is d, written by the
\* handler of that call, no receipt, and the handler ended without an
\* uncaught exception.
C13_DetailShownInline ==
    GotDetail =>
        /\ resultsContainer.content.kind = "error"
        /\ resultsContainer.content.text = lastEvent.response.body.detail.v
        /\ resultsContainer.content.receipt = NoReceipt
        /\ resultsContainer.content.by = lastEvent.call
        /\ ~lastEvent.threw

\* The value holds nothing but whitespace.
IsBlank(value) == \A p \in 1..Len(value) : value[p] \in Whitespace

\* The step is a submit event on the lookup form with a non-blank query.
LookupAccepted ==
    /\ LookupStarted
    /\ vars' # vars
    /\ lastEvent'.type = "submit"
    /\ ~IsBlank(lastEvent'.value)

\* A lookup submitted while the container shows an error is taken like any
\* other: one request is issued and the container shows the placeholder.
AcceptedAfterError ==
    (LookupAccepted /\ resultsContainer.content.kind = "error") =>
        /\ Len(calls') = Len(calls) + 1
        /\ calls'[Len(calls')].pc = "fetch"
        /\ resultsContainer'.content.kind = "searching"
        /\ resultsContainer'.content.text = Searching

\* C14: after a transport failure of a lookup request, or a body that does
\* not parse, whatever the status, the results container holds the generic
\* message, written by the handler of that call; a lookup submitted after
\* that is taken.
C14_GenericOnFailure ==
    /\ []((LookupStarted /\ (TransportFailed \/ BodyMalformed)) =>
            /\ resultsContainer.content.kind = "error"
            /\ resultsContainer.content.text = LookupErrorText
            /\ resultsContainer.content.by = lastEvent.call
            /\ calls[lastEvent.call].pc = "done")
    /\ [][AcceptedAfterError]_vars

C14_MalformedAtNotFound ==
    /\ LookupStarted
    /\ BodyMalformed
    /\ lastEvent.response.status = 404
    /\ resultsContainer.content.text = LookupErrorText
    /\ Outstanding = {}

\* The value without its leading and trailing whitespace.
Stripped(value) ==
    LET solid == {p \in 1..Len(value) : value[p] \notin Whitespace}
        first == CHOOSE p \in solid : \A q \in solid : p <= q
        last == CHOOSE p \in solid : \A q \in solid : p >= q
    IN IF solid = {} THEN <<>> ELSE SubSeq(value, first, last)

\* decodeURIComponent, on the escapes of the characters that are typed.
RECURSIVE Unescaped(_)
Unescaped(s) ==
    IF Len(s) >= 3 /\ Head(s) = "%"
    THEN (CASE SubSeq(s, 2, 3) = <<"2", "0">> -> <<" ">>
            [] SubSeq(s, 2, 3) = <<"2", "6">> -> <<"&">>
            [] OTHER -> <<"?">>) \o Unescaped(SubSeq(s, 4, Len(s)))
    ELSE IF s = <<>> THEN <<>>
    ELSE <<Head(s)>> \o Unescaped(Tail(s))

Reserved == {" ", "&"}

\* A lookup submit with a non-blank query issues one GET whose address is
\* the base address followed by an escaped form of the stripped query, free
\* of reserved characters.
OneEscapedGet ==
    LookupAccepted =>
        LET call == calls'[Len(calls')]
            path == SubSeq(call.endpoint, Len(API_BASE_URL) + 1, Len(call.endpoint))
        IN /\ Len(calls') = Len(calls) + 1
           /\ call.method = "GET"
           /\ SubSeq(call.endpoint, 1, Len(API_BASE_URL)) = API_BASE_URL
           /\ \A p \in 1..Len(path) : path[p] \notin Reserved
           /\ Unescaped(path) = Stripped(lastEvent'.value)
           /\ \A i \in 1..Len(calls) : calls'[i] = calls[i]

\* A lookup submit with a blank query changes nothing on the page.
BlankLookupIgnored ==
    (/\ LookupStarted
     /\ lastEvent'.type = "submit"
     /\ vars' # vars
     /\ IsBlank(lastEvent'.value)) =>
        /\ calls' = calls
        /\ resultsContainer' = resultsContainer
        /\ nameInput' = nameInput

\* C15: a lookup submit with a non-blank query issues exactly one GET,
\* addressed by the escaped stripped query; a lookup submit with an empty
\* or whitespace-only query issues none and leaves the results container
\* as it was.
C15_OneGetPerQuery ==
    /\ [][OneEscapedGet]_vars
    /\ [][BlankLookupIgnored]_vars
    /\ []((LookupStarted /\ lastEvent.type = "submit") =>
            lastEvent.issued = (IF IsBlank(lastEvent.value) THEN 0 ELSE 1))

C15_EscapedQuerySent ==
    /\ LookupStarted
    /\ lastEvent.type = "submit"
    /\ lastEvent.value = <<" ", "&">>
    /\ lastEvent.issued = 1
    /\ calls[Len(calls)].endpoint = API_BASE_URL \o <<"%", "2", "6">>
    /\ calls[Len(calls)].method = "GET"

\* A blank lookup submit made while a result is on display.
C15_BlankAfterResult ==
    /\ LookupStarted
    /\ lastEvent.type = "submit"
    /\ lastEvent.value = <<" ">>
    /\ lastEvent.issued = 0
    /\ resultsContainer.content.kind = "receipt"

\* C16: while the lookup submitted last has not been resolved, the results
\* container holds the "Searching..." placeholder that its submit wrote, and
\* not the outcome of a lookup submitted before it.
C16_PlaceholderUntilResolved ==
    (LookupStarted /\ Len(calls) > 0 /\ calls[Len(calls)].pc # "done") =>
        /\ resultsContainer.content.kind = "searching"
        /\ resultsContainer.content.text = Searching
        /\ resultsContainer.content.by = Len(calls)

\* What a response is rendered as, as a function of the response.
Rendering(response) ==
    LET generic == [kind |-> "error", text |-> LookupErrorText, receipt |-> NoReceipt, by |-> 0]
    IN CASE response.kind = "transport" -> generic
         [] response.body.json \in {"malformed", "null"} -> generic
         [] response.body.json = "object" /\ ~ResponseOk(response.status) ->
              [generic EXCEPT !.text = InnerHTMLText(TemplateString(response.body.detail))]
         [] OTHER ->
              IF response.body.order.balance.t # "number" THEN generic
              ELSE [kind |-> "receipt", text |-> <<>>,
                    receipt |-> Receipt(response.body.order), by |-> 0]

\* C17: whenever a lookup request has been resolved, the content of the
\* results container is the rendering of the response that resolved it,
\* whatever the container held before, whichever query was typed and however
\* many lookups came before; and the container is on display.
C17_RenderOfResponseAlone ==
    (LookupStarted /\ Settled) =>
        /\ [resultsContainer.content EXCEPT !.by = 0] = Rendering(lastEvent.response)
        /\ resultsContainer.content.by = lastEvent.call
        /\ resultsContainer.display = "block"

C17_SecondLookupRendered ==
    /\ LookupStarted
    /\ GotOrder
    /\ lastEvent.call = 2
    /\ calls[1].pc = "done"
    /\ lastEvent.response.body.order = FullOrder(Num(100))
    /\ resultsContainer.content.receipt.totalCost = <<"1", "0", "0", ".", "6", "3">>

\* A submit event on a chat form whose input is empty or whitespace only
\* leaves the window, the histories, the requests and the form as they were
\* and ends without an exception.
BlankChatIgnored ==
    (/\ AgentStarted \/ WidgetStarted
     /\ lastEvent'.type = "submit"
     /\ vars' # vars
     /\ IsBlank(lastEvent'.value)) =>
        /\ UNCHANGED <<chatWindow, conversationHistory, calls, nextEl>>
        /\ UNCHANGED <<chatInput, chatSubmitButton, messageInput>>
        /\ ~lastEvent'.threw

\* C18: a chat submit with empty or whitespace-only input issues no request,
\* appends nothing to the window or to the conversation history, shows no
\* error and leaves the form, its disabled flags included, unchanged.
C18_BlankSubmitNoOp ==
    /\ [][BlankChatIgnored]_vars
    /\ []((/\ AgentStarted \/ WidgetStarted
           /\ lastEvent.type = "submit"
           /\ IsBlank(lastEvent.value)) =>
             (lastEvent.issued = 0 /\ lastEvent.appended = 0))

C18_BlankAfterRoundTrip ==
    /\ AgentStarted
    /\ lastEvent.type = "submit"
    /\ lastEvent.value = <<" ", " ">>
    /\ lastEvent.issued = 0
    /\ Len(calls) = 1
    /\ Len(chatWindow) = 2
    /\ Len(conversationHistory[1]) = 2
    /\ ~chatInput.disabled

C18_BlankWhileOutstanding ==
    /\ AgentStarted \/ WidgetStarted
    /\ lastEvent.type = "submit"
    /\ IsBlank(lastEvent.value)
    /\ lastEvent.before = 1
    /\ Cardinality(Outstanding) = 1

\* The step resolved a chat request for good, and el is its placeholder.
Resolved(el) ==
    /\ lastEvent'.type \in {"fetch", "json"}
    /\ vars' # vars
    /\ calls'[lastEvent'.call].pc = "done"
    /\ calls'[lastEvent'.call].el = el

\* Entry p of the window is kept where it is, text included, unless it is
\* the placeholder of the request the step resolved, whose text may change.
KeptInPlace(p) ==
    /\ chatWindow'[p].id = chatWindow[p].id
    /\ chatWindow'[p].sender = chatWindow[p].sender
    /\ chatWindow'[p] = chatWindow[p] \/ Resolved(chatWindow[p].id)

\* The window after the step is the window before it without the entry at
\* position q, followed by one new entry.
ReplacedAtEnd(q) ==
    /\ Len(chatWindow') = Len(chatWindow)
    /\ SubSeq(chatWindow', 1, Len(chatWindow) - 1)
          = SubSeq(chatWindow, 1, q - 1) \o SubSeq(chatWindow, q + 1, Len(chatWindow))
    /\ chatWindow'[Len(chatWindow')].id = nextEl'
    /\ nextEl' = nextEl + 1
    /\ chatWindow'[Len(chatWindow')].sender = "ai"

InPlaceOnly ==
    (AgentStarted \/ WidgetStarted) =>
        /\ Len(chatWindow') >= Len(chatWindow)
        /\ \A p \in 1..Len(chatWindow) : KeptInPlace(p)

\* C19 as stated: no step removes, moves or changes an entry of a chat
\* window, except for the text of the placeholder of the request that the
\* step resolves.
C19_AppendOnlyInPlace == [][InPlaceOnly]_vars

AgentInPlace == AgentStarted => InPlaceOnly

WidgetRemoveAppend ==
    WidgetStarted =>
        IF \E i \in 1..Len(calls) : Resolved(calls[i].el)
        THEN \E q \in 1..Len(chatWindow) :
               /\ Resolved(chatWindow[q].id)
               /\ chatWindow[q].sender = "loading"
               /\ ReplacedAtEnd(q)
        ELSE /\ Len(chatWindow') >= Len(chatWindow)
             /\ SubSeq(chatWindow', 1, Len(chatWindow)) = chatWindow

\* C19 amended: in chat-agent.js no step removes, moves or changes an entry
\* except for the text of the placeholder of the request the step resolves;
\* in script.js a step that resolves a request removes the placeholder of
\* that request and appends one new entry at the end, every other step only
\* appends, and no other entry is removed, moved or changed.
C19_AppendOnlyButPlaceholder ==
    /\ [][AgentInPlace]_vars
    /\ [][WidgetRemoveAppend]_vars

C19_ReplyBelowLaterSubmit ==
    /\ WidgetStarted
    /\ Settled
    /\ lastEvent.call = 1
    /\ Len(chatWindow) = 4
    /\ chatWindow[1].sender = "user"
    /\ chatWindow[2].sender = "user"
    /\ chatWindow[3].sender = "loading"
    /\ chatWindow[4].sender = "ai"

\* C20: in the script.js widget at most one request is outstanding, every
\* ai entry of the window comes directly after a user entry, and the entry
\* a resolution adds comes directly after the user entry of the request it
\* resolves.
C20_RepliesInSubmitOrder ==
    WidgetStarted =>
        /\ Cardinality(Outstanding) <= 1
        /\ \A p \in 1..Len(chatWindow) :
              chatWindow[p].sender = "ai" =>
                  (p > 1 /\ chatWindow[p - 1].sender = "user")
        /\ Settled =>
              LET n == Len(chatWindow) IN
              /\ n >= 2
              /\ chatWindow[n].sender = "ai"
              /\ chatWindow[n - 1].sender = "user"
              /\ chatWindow[n - 1].id = calls[lastEvent.call].el - 1

\* What the page holds that was parsed as markup is one of the constants
\* of the scripts: in the chat windows an entry written through innerHTML
\* holds the fixed error message, and the results container, which is only
\* ever written through innerHTML, holds nothing, the placeholder or the
\* generic message.
MarkupIsConstant ==
    /\ \A p \in 1..Len(chatWindow) :
          chatWindow[p].html => chatWindow[p].text \in {AgentErrorText, WidgetErrorText}
    /\ resultsContainer.content.kind \in {"empty", "searching", "error"}
    /\ resultsContainer.content.text \in {<<>>, Searching, LookupErrorText}

\* C21: text of a response or of the user reaches the page through
\* innerText or textContent only; whatever is assigned to innerHTML, in the
\* chat scripts and in the lookup, is a constant without response or input
\* data in it.
C21_OnlyConstantsAsMarkup == MarkupIsConstant

\* C22: on every chat-agent.js page that passes the startup check, with or
\* without a submit button, the input is disabled exactly when one request
\* has been issued and is not resolved yet.
C22_DisabledIffOutstanding ==
    AgentStarted => (chatInput.disabled <=> Cardinality(Outstanding) = 1)

\* C23: when no lookup request is outstanding, the results container holds
\* what the handler of the lookup submitted last wrote; and a turn that
\* resolves a request leaves in the container what was written for the
\* lookup submitted last, its placeholder or its outcome.
C23_LatestQueryShown ==
    (LookupStarted /\ Len(calls) > 0) =>
        /\ Outstanding = {} => resultsContainer.content.by = Len(calls)
        /\ Settled => resultsContainer.content.by = Len(calls)

\* C24: after a chat round trip has been resolved the entry of the request
\* shows the reply string of a 2xx response that carries one, and the fixed
\* error message of the script in every other case, a 2xx body without a
\* reply included.
C24_ReplyOrFixedError ==
    ((AgentStarted \/ WidgetStarted) /\ Settled) =>
        Shown(lastEvent.call)
            = (IF GotReply THEN lastEvent.response.body.reply.v ELSE FixedErrorText)

\* The step resolved chat-agent.js request i with something else than a
\* 2xx body that carries a reply string.
EndedInError(i) ==
    /\ AgentStarted
    /\ vars' # vars
    /\ lastEvent'.type \in {"fetch", "json"}
    /\ lastEvent'.call = i
    /\ calls'[i].pc = "done"
    /\ ~GotReply'

\* A round trip that ends in an error leaves both histories as they were,
\* the user message of the request being the last element of the history
\* of its closure.
ErrorKeepsHistory ==
    \A i \in 1..Len(calls) :
        EndedInError(i) =>
            LET h == conversationHistory[calls[i].listener] IN
            /\ conversationHistory' = conversationHistory
            /\ h[Len(h)] = [role |-> "user", content |-> calls[i].message]

\* Every step leaves each history a prefix of what it is afterwards.
HistoryOnlyGrows ==
    \A k \in 1..2 :
        /\ Len(conversationHistory'[k]) >= Len(conversationHistory[k])
        /\ SubSeq(conversationHistory'[k], 1, Len(conversationHistory[k]))
              = conversationHistory[k]

\* C25: a chat round trip that ends in a non-2xx answer, a malformed body
\* or a transport failure leaves the conversation history unchanged, the
\* user message of the request still in it and the error message not in
\* it; no step removes or changes an element of a history.
C25_ErrorNotInHistory ==
    /\ [][ErrorKeepsHistory]_vars
    /\ [][HistoryOnlyGrows]_vars
    /\ [](\A k \in 1..2 : \A j \in 1..Len(conversationHistory[k]) :
             conversationHistory[k][j].content # AgentErrorText)

C25_ErrorAfterSubmit ==
    /\ AgentStarted
    /\ Settled
    /\ GotObject
    /\ ~ResponseOk(lastEvent.response.status)
    /\ Shown(lastEvent.call) = AgentErrorText
    /\ conversationHistory[1] = <<Greeting, [role |-> "user", content |-> <<"&">>]>>

\* The last turn was a chat submit with a non-blank input, made in
\* chat-agent.js with no request outstanding.
ChatAccepted ==
    /\ AgentStarted \/ WidgetStarted
    /\ lastEvent.type = "submit"
    /\ ~IsBlank(lastEvent.value)
    /\ AgentStarted => lastEvent.before = 0

\* C26: after an accepted chat submit the request just issued carries the
\* stripped input value as its message, the user entry just added to the
\* window shows the same string, in chat-agent.js the history of the
\* closure ends with a user message of the same string, and the input
\* field is empty.
C26_SameMessageEverywhere ==
    ChatAccepted =>
        LET m == Stripped(lastEvent.value)
            n == Len(chatWindow)
        IN /\ lastEvent.issued = 1
           /\ calls[Len(calls)].message = m
           /\ n >= 2
           /\ chatWindow[n - 1].sender = "user"
           /\ chatWindow[n - 1].text = m
           /\ chatWindow[n].id = calls[Len(calls)].el
           /\ AgentStarted =>
                 LET h == conversationHistory[calls[Len(calls)].listener]
                 IN h[Len(h)] = [role |-> "user", content |-> m]
           /\ InputValue = <<>>

FinalKinds == {"receipt", "error"}

\* The last turn resolved lookup request j and left a final rendering of
\* its own in the results container.
RenderedFor(j) ==
    /\ Settled
    /\ lastEvent.call = j
    /\ resultsContainer.content.by = j
    /\ resultsContainer.content.kind \in FinalKinds

\* A step that resolves a lookup request leaves a final rendering of that
\* request in the results container.
ResolutionRenders ==
    LookupStarted =>
        \A j \in 1..Len(calls) :
            (calls[j].pc # "done" /\ calls'[j].pc = "done") => RenderedFor(j)'

\* C27: the turn that resolves a lookup request, whichever way the request
\* went, leaves a receipt or an error paragraph of that request in the
\* results container in place of the placeholder, and the container never
\* shows the placeholder of a request that has been resolved.
C27_PlaceholderReplaced ==
    /\ [][ResolutionRenders]_vars
    /\ [](LookupStarted /\ Settled => RenderedFor(lastEvent.call))
    /\ []((LookupStarted /\ resultsContainer.content.kind = "searching") =>
             calls[resultsContainer.content.by].pc # "done")

C27_RenderingFailureReplaced ==
    /\ LookupStarted
    /\ BalanceMissing
    /\ lastEvent.response.body.order.balance.t = "null"
    /\ RenderedFor(Len(calls))
    /\ resultsContainer.content.text = LookupErrorText
    /\ Outstanding = {}

\* C28: after a non-2xx lookup answer whose body parses to an object
\* without a detail string, the results container holds an error paragraph
\* with a message in it, not an empty one and not the text "undefined".
C28_FallbackWithoutDetail ==
    (/\ LookupStarted
     /\ GotObject
     /\ ~ResponseOk(lastEvent.response.status)
     /\ lastEvent.response.body.detail.t # "string") =>
        /\ resultsContainer.content.kind = "error"
        /\ resultsContainer.content.by = lastEvent.call
        /\ resultsContainer.content.text \notin {<<>>, <<"undefined">>, <<"null">>}

====
